---- MODULE Spec2Model ----
(***************************************************************************)
(* Model of edge_workspace_links.py: recovery of gzip streams from a blob, *)
(* text sanitising, tolerant JSON scanning, the content-tree walk, tab and *)
(* favorite extraction, and the per-file merge of the extracted links.     *)
(*                                                                         *)
(* Python strings are sequences of one-character strings, bytes are        *)
(* sequences of integers 0..255, a dict is a sequence of <<key, value>>    *)
(* pairs with unique keys in insertion order.  A JSON value is a record    *)
(* [t |-> tag, i, s, c] with tag in null, bool, int, str, list, map.       *)
(***************************************************************************)
EXTENDS Integers, Sequences, FiniteSets, TLC

VARIABLES
    pc,               \* position of the component under analysis
    \* main(): per-file merge
    tabs, favorites, mode, exclude_schemes,
    tab_urls, favorite_urls, combined_urls, rows,
    \* decompress_payloads
    data, start, payloads, seen,
    \* iter_json_objects
    text, idx, yielded,
    \* iter_content_objects
    obj, contents,
    \* extract_tabs_from_content / extract_favorites_from_content
    content, links, raised,
    \* extract_workspace_data (join, decode, scrub)
    raw_payloads, decoded, clean

mergeVars == <<tabs, favorites, mode, exclude_schemes, tab_urls, favorite_urls, combined_urls, rows>>
gzVars == <<data, start, payloads, seen>>
scanVars == <<text, idx, yielded>>
walkVars == <<obj, contents>>
extractVars == <<content, links, raised>>
sanVars == <<raw_payloads, decoded, clean>>
vars == <<pc, mergeVars, gzVars, scanVars, walkVars, extractVars, sanVars>>

(***************************************************************************)
(* Bounds of the model.                                                    *)
(***************************************************************************)
MaxLinks == 3

(***************************************************************************)
(* Generic helpers.                                                        *)
(***************************************************************************)
SeqsUpTo(S, n) == UNION {[1..k -> S] : k \in 0..n}

Range(s) == {s[i] : i \in 1..Len(s)}

\* Python: x in "…" / s.find(c): first index of c in s, 0 when absent.
FirstIndexOf(s, c) ==
    IF \E i \in 1..Len(s) : s[i] = c
    THEN CHOOSE i \in 1..Len(s) : s[i] = c /\ \A j \in 1..(i - 1) : s[j] # c
    ELSE 0

(***************************************************************************)
(* Python dict as an insertion-ordered sequence of <<key, value>> pairs.   *)
(***************************************************************************)
DictKeys(d) == {d[i][1] : i \in 1..Len(d)}

DictHas(d, k) == \E i \in 1..Len(d) : d[i][1] = k

DictPos(d, k) == CHOOSE i \in 1..Len(d) : d[i][1] = k

DictGet(d, k) == d[DictPos(d, k)][2]

\* d[k] = v: overwrite in place when k is present, append otherwise.
DictSet(d, k, v) ==
    IF DictHas(d, k)
    THEN [d EXCEPT ![DictPos(d, k)] = <<k, v>>]
    ELSE Append(d, <<k, v>>)

(***************************************************************************)
(* filter_links                                                            *)
(***************************************************************************)
Lower(c) == CASE c = "E" -> "e" [] c = "H" -> "h" [] OTHER -> c

LowerStr(s) == [i \in 1..Len(s) |-> Lower(s[i])]

\* url.split(":", 1)[0].lower() if ":" in url else ""
UrlScheme(url) ==
    LET c == FirstIndexOf(url, ":")
    IN IF c = 0 THEN <<>> ELSE LowerStr(SubSeq(url, 1, c - 1))

filter_links(ls, exclude) ==
    IF exclude = {} THEN ls
    ELSE SelectSeq(ls, LAMBDA link : UrlScheme(link.url) \notin exclude)

(***************************************************************************)
(* main.unique_by_url                                                      *)
(***************************************************************************)
\* One iteration of the loop body for one link.
UniqueStepLast(url_to_title, link) ==
    IF link.url = <<>> THEN url_to_title
    ELSE IF ~DictHas(url_to_title, link.url) \/ link.title # <<>>
         THEN DictSet(url_to_title, link.url, link.title)
         ELSE url_to_title

UniqueStep(url_to_title, link) ==
    IF link.url = <<>> THEN url_to_title
    ELSE IF ~DictHas(url_to_title, link.url)
            \/ (DictGet(url_to_title, link.url) = <<>> /\ link.title # <<>>)
         THEN DictSet(url_to_title, link.url, link.title)
         ELSE url_to_title

RECURSIVE UniqueFrom(_, _, _)
UniqueFrom(ls, i, acc) ==
    IF i > Len(ls) THEN acc ELSE UniqueFrom(ls, i + 1, UniqueStep(acc, ls[i]))

unique_by_url(ls) == UniqueFrom(ls, 1, <<>>)

(***************************************************************************)
(* main: merge of favorites and tabs of one file                           *)
(***************************************************************************)
\* for url, title in tab_urls.items(): if url in combined_urls: continue
MergeTabStepOverwrite(combined, pair) ==
    DictSet(combined, pair[1], <<"tab", pair[2]>>)

MergeTabStepPreferTitle(combined, pair) ==
    IF DictHas(combined, pair[1])
    THEN IF DictGet(combined, pair[1])[2] = <<>> /\ pair[2] # <<>>
         THEN DictSet(combined, pair[1], <<"favorite", pair[2]>>)
         ELSE combined
    ELSE DictSet(combined, pair[1], <<"tab", pair[2]>>)

MergeTabStep(combined, pair) ==
    IF DictHas(combined, pair[1]) THEN combined
    ELSE DictSet(combined, pair[1], <<"tab", pair[2]>>)

RECURSIVE MergeTabsFrom(_, _, _)
MergeTabsFrom(tu, i, acc) ==
    IF i > Len(tu) THEN acc ELSE MergeTabsFrom(tu, i + 1, MergeTabStep(acc, tu[i]))

Combine(fu, tu) ==
    MergeTabsFrom(tu, 1, [i \in 1..Len(fu) |-> <<fu[i][1], <<"favorite", fu[i][2]>>>>])

FileRows(combined) ==
    [i \in 1..Len(combined) |->
        [source |-> combined[i][2][1], url |-> combined[i][1], title |-> combined[i][2][2]]]

Urls == {<<"h", ":", "a">>, <<"E", ":", "x">>}
Titles == {<<>>, <<"A">>, <<"B">>}
LinkRecords == [url : Urls, title : Titles]
Extracted == [kind : {"tab", "favorite"}, link : LinkRecords]
Modes == {"both", "tabs", "favorites"}
ExcludeChoices == {{}, {<<"e">>}}

LinksOfKind(evs, k) ==
    LET sel == SelectSeq(evs, LAMBDA e : e.kind = k)
    IN [i \in 1..Len(sel) |-> sel[i].link]

MergeIdle ==
    /\ tabs = <<>> /\ favorites = <<>> /\ mode = "both" /\ exclude_schemes = {}
    /\ tab_urls = <<>> /\ favorite_urls = <<>> /\ combined_urls = <<>> /\ rows = <<>>
GzIdle == data = <<>> /\ start = 0 /\ payloads = <<>> /\ seen = {}
ScanIdle == text = <<>> /\ idx = 0 /\ yielded = <<>>
WalkIdle == obj = <<>> /\ contents = <<>>
ExtractIdle == content = <<>> /\ links = <<>> /\ raised = FALSE
SanIdle == raw_payloads = <<>> /\ decoded = <<>> /\ clean = <<>>

\* State after extract_workspace_data returned for one file: the tab and
\* favorite link records, in extraction order, and the command-line options.
InitMerge ==
    /\ pc = "extracted"
    /\ \E evs \in SeqsUpTo(Extracted, MaxLinks) :
        /\ tabs = LinksOfKind(evs, "tab")
        /\ favorites = LinksOfKind(evs, "favorite")
    /\ mode \in Modes
    /\ exclude_schemes \in ExcludeChoices
    /\ tab_urls = <<>> /\ favorite_urls = <<>> /\ combined_urls = <<>> /\ rows = <<>>
    /\ GzIdle /\ ScanIdle /\ WalkIdle /\ ExtractIdle /\ SanIdle

\* Loop body of main() for one file, from filter_links to the appended rows.
ProcessFile ==
    /\ pc = "extracted"
    /\ LET ft == filter_links(tabs, exclude_schemes)
           ff == filter_links(favorites, exclude_schemes)
           tu == IF mode \in {"both", "tabs"} THEN unique_by_url(ft) ELSE <<>>
           fu == IF mode \in {"both", "favorites"} THEN unique_by_url(ff) ELSE <<>>
       IN /\ tabs' = ft
          /\ favorites' = ff
          /\ tab_urls' = tu
          /\ favorite_urls' = fu
          /\ combined_urls' = Combine(fu, tu)
          /\ rows' = FileRows(Combine(fu, tu))
    /\ pc' = "merged"
    /\ UNCHANGED <<mode, exclude_schemes, gzVars, scanVars, walkVars, extractVars, sanVars>>

NextMerge == ProcessFile

SpecMerge == InitMerge /\ [][NextMerge]_vars

(***************************************************************************)
(* Properties of the merge.                                                *)
(***************************************************************************)
UrlsOf(ls) == {ls[i].url : i \in 1..Len(ls)}

HasTitled(ls, url) == \E i \in 1..Len(ls) : ls[i].url = url /\ ls[i].title # <<>>

\* Title of the first record for url whose title is non-empty, else "".
FirstNonEmptyTitle(ls, url) ==
    IF HasTitled(ls, url)
    THEN ls[CHOOSE i \in 1..Len(ls) :
                /\ ls[i].url = url /\ ls[i].title # <<>>
                /\ \A j \in 1..(i - 1) : ~(ls[j].url = url /\ ls[j].title # <<>>)].title
    ELSE <<>>

TitleMapIsFirstNonEmpty(m, ls) ==
    /\ DictKeys(m) = UrlsOf(ls)
    /\ \A i, j \in 1..Len(m) : m[i][1] = m[j][1] => i = j
    /\ \A i \in 1..Len(m) : m[i][2] = FirstNonEmptyTitle(ls, m[i][1])

\* C1: in mode "both", the rows of one file hold at most one row per URL, every
\* favorite URL has source "favorite", and a row has source "tab" only for a URL
\* that occurs among the tabs and not among the favorites (every such URL has one).
C1_MergeClassification ==
    (pc = "merged" /\ mode = "both") =>
        /\ \A i, j \in 1..Len(rows) : rows[i].url = rows[j].url => i = j
        /\ \A u \in UrlsOf(favorites) :
               \E i \in 1..Len(rows) : rows[i].url = u /\ rows[i].source = "favorite"
        /\ \A i \in 1..Len(rows) :
               /\ rows[i].source \in {"tab", "favorite"}
               /\ rows[i].source = "tab" =>
                      rows[i].url \in UrlsOf(tabs) /\ rows[i].url \notin UrlsOf(favorites)
        /\ \A u \in UrlsOf(tabs) \ UrlsOf(favorites) :
               \E i \in 1..Len(rows) : rows[i].url = u /\ rows[i].source = "tab"

C1_Witness ==
    /\ pc = "merged" /\ mode = "both" /\ exclude_schemes = {}
    /\ \E u \in UrlsOf(tabs) \cap UrlsOf(favorites) :
           \E i \in 1..Len(rows) : rows[i].url = u /\ rows[i].source = "favorite"
    /\ \E i \in 1..Len(rows) : rows[i].source = "tab"

\* C2: unique_by_url stores for every URL the title of the first record for that
\* URL that has a non-empty title, or "" when no record for it has one.
C2_FirstNonEmptyTitleWins ==
    pc = "merged" =>
        /\ mode \in {"both", "tabs"} => TitleMapIsFirstNonEmpty(tab_urls, tabs)
        /\ mode \in {"both", "favorites"} => TitleMapIsFirstNonEmpty(favorite_urls, favorites)

C2_Witness ==
    /\ pc = "merged" /\ mode = "both"
    /\ \E u \in UrlsOf(tabs) :
        /\ Len(tabs) = 3 /\ \A i \in 1..3 : tabs[i].url = u
        /\ tabs[1].title = <<>> /\ tabs[2].title = <<"A">> /\ tabs[3].title = <<"B">>
        /\ DictGet(tab_urls, u) = <<"A">>

\* C3 as stated: a URL extracted both as favorite and as tab gets a non-empty
\* title whenever its favorite records or its tab records include one.
C3_TitleFromEitherSource ==
    (pc = "merged" /\ mode = "both") =>
        \A i \in 1..Len(rows) :
            (rows[i].url \in UrlsOf(favorites) \cap UrlsOf(tabs)
             /\ (HasTitled(favorites, rows[i].url) \/ HasTitled(tabs, rows[i].url)))
                => rows[i].title # <<>>

\* C3 amended: the row of a URL that is both favorite and tab carries the
\* favorite title (first non-empty among the favorite records, else ""); the
\* titles of its tab records are never used.
C3_TitleFromFavoriteOnly ==
    (pc = "merged" /\ mode = "both") =>
        \A i \in 1..Len(rows) :
            rows[i].url \in UrlsOf(favorites) \cap UrlsOf(tabs) =>
                /\ rows[i].source = "favorite"
                /\ rows[i].title = FirstNonEmptyTitle(favorites, rows[i].url)

C3_Witness ==
    /\ pc = "merged" /\ mode = "both"
    /\ \E i \in 1..Len(rows) :
        /\ rows[i].url \in UrlsOf(favorites) \cap UrlsOf(tabs)
        /\ ~HasTitled(favorites, rows[i].url) /\ HasTitled(tabs, rows[i].url)
        /\ rows[i].source = "favorite" /\ rows[i].title = <<>>

(***************************************************************************)
(* JSON values as json.loads produces them, and the Python operations the  *)
(* extractors apply to them.                                               *)
(***************************************************************************)
\* Every value has the same four fields: i holds an integer or a boolean
\* (1, 0), s the characters of a string, c the <<key, value>> pairs of a
\* mapping or the <<"", element>> pairs of a list.
JVal(tag, n, str, children) == [t |-> tag, i |-> n, s |-> str, c |-> children]
JNull == JVal("null", 0, <<>>, <<>>)
JBool(b) == JVal("bool", IF b THEN 1 ELSE 0, <<>>, <<>>)
JInt(n) == JVal("int", n, <<>>, <<>>)
JStr(str) == JVal("str", 0, str, <<>>)
JList(items) == JVal("list", 0, <<>>, [k \in 1..Len(items) |-> <<<<>>, items[k]>>])
JMap(d) == JVal("map", 0, <<>>, d)
EmptyMap == JMap(<<>>)

\* The outcome of an expression that raised AttributeError.
Raise == JVal("raise", 0, <<>>, <<>>)
IsRaise(x) == x.t = "raise"

\* isinstance(x, dict), isinstance(x, str)
IsMap(x) == x.t = "map"
IsStr(x) == x.t = "str"

\* bool(x): None, False, 0, "", [] and {} are falsy.
Truthy(x) ==
    CASE x.t = "null" -> FALSE
      [] x.t = "bool" -> x.i = 1
      [] x.t = "int" -> x.i # 0
      [] x.t = "str" -> Len(x.s) > 0
      [] OTHER -> Len(x.c) > 0

\* d.get(k, dflt) on a dict d.
MapGet(m, k, dflt) == IF DictHas(m.c, k) THEN DictGet(m.c, k) ELSE dflt

\* x.get(k, dflt) on any value: only a dict has the attribute get.
PyGet(x, k, dflt) == IF IsMap(x) THEN MapGet(x, k, dflt) ELSE Raise

DictValues(d) == [i \in 1..Len(d) |-> d[i][2]]

K_subdirectories == <<"s", "u", "b", "d", "i", "r", "e", "c", "t", "o", "r", "i", "e", "s">>
K_tabstripmodel == <<"t", "a", "b", "s", "t", "r", "i", "p", "m", "o", "d", "e", "l">>
K_webcontents == <<"w", "e", "b", "c", "o", "n", "t", "e", "n", "t", "s">>
K_storage == <<"s", "t", "o", "r", "a", "g", "e">>
K_currentNavigationIndex == <<"c", "u", "r", "r", "e", "n", "t", "N", "a", "v", "i", "g", "a", "t", "i", "o", "n", "I", "n", "d", "e", "x">>
K_navigationStack == <<"n", "a", "v", "i", "g", "a", "t", "i", "o", "n", "S", "t", "a", "c", "k">>
K_virtualUrl == <<"v", "i", "r", "t", "u", "a", "l", "U", "r", "l">>
K_originalRequestUrl == <<"o", "r", "i", "g", "i", "n", "a", "l", "R", "e", "q", "u", "e", "s", "t", "U", "r", "l">>
K_url == <<"u", "r", "l">>
K_title == <<"t", "i", "t", "l", "e">>
K_favorites == <<"f", "a", "v", "o", "r", "i", "t", "e", "s">>
K_nodeType == <<"n", "o", "d", "e", "T", "y", "p", "e">>
K_value == <<"v", "a", "l", "u", "e">>
K_content == <<"c", "o", "n", "t", "e", "n", "t">>

DigitChars == <<"0", "1", "2", "3", "4", "5", "6", "7", "8", "9">>

\* str.isdigit() on ASCII text
IsDigitStr(s) == s # <<>> /\ \A i \in 1..Len(s) : s[i] \in Range(DigitChars)

DigitVal(c) == (CHOOSE d \in 1..10 : DigitChars[d] = c) - 1

\* int(s) for a string of decimal digits
RECURSIVE StrToInt(_)
StrToInt(s) ==
    IF s = <<>> THEN 0
    ELSE 10 * StrToInt(SubSeq(s, 1, Len(s) - 1)) + DigitVal(s[Len(s)])

\* str(n) for an integer
RECURSIVE NatToStr(_)
NatToStr(n) ==
    IF n < 10 THEN <<DigitChars[n + 1]>>
    ELSE Append(NatToStr(n \div 10), DigitChars[(n % 10) + 1])

IntToStr(n) == IF n < 0 THEN <<"-">> \o NatToStr(-n) ELSE NatToStr(n)

\* str(x).  The repr of a list or dict is cut to its brackets: it starts
\* with a bracket, so it is neither "1" nor a string of digits.
PyStr(x) ==
    CASE x.t = "str" -> x.s
      [] x.t = "int" -> IntToStr(x.i)
      [] x.t = "null" -> <<"N", "o", "n", "e">>
      [] x.t = "bool" -> IF x.i = 1 THEN <<"T", "r", "u", "e">> ELSE <<"F", "a", "l", "s", "e">>
      [] x.t = "list" -> <<"[", "]">>
      [] OTHER -> <<"{", "}">>

SetMax(S) == CHOOSE m \in S : \A n \in S : n <= m

(***************************************************************************)
(* typed_value                                                             *)
(***************************************************************************)
typed_value(value) ==
    IF IsMap(value) /\ DictHas(value.c, K_value) THEN DictGet(value.c, K_value) ELSE value

(***************************************************************************)
(* extract_tabs_from_content                                               *)
(***************************************************************************)
\* What one iteration of the loop over webcontents.values() does.
SkipTab == [outcome |-> "skip", link |-> <<>>]
RaiseTab == [outcome |-> "raise", link |-> <<>>]
EmitTab(url, title) == [outcome |-> "emit", link |-> <<[url |-> url, title |-> title]>>]

\* for key in ("virtualUrl", "originalRequestUrl", "url"): first non-empty string
UrlKeys == <<K_virtualUrl, K_originalRequestUrl, K_url>>

UrlCandidate(entry_storage, key) == typed_value(MapGet(entry_storage, key, JNull))

FirstUrl(entry_storage) ==
    LET good == {i \in 1..3 : LET c == UrlCandidate(entry_storage, UrlKeys[i])
                              IN IsStr(c) /\ c.s # <<>>}
    IN IF good = {} THEN <<>>
       ELSE UrlCandidate(entry_storage, UrlKeys[CHOOSE i \in good : \A j \in good : i <= j]).s

\* Lines 135-148: from the selected entry to the appended link.
EntryResult(entry) ==
    IF ~Truthy(entry) THEN SkipTab
    ELSE LET entry_storage == PyGet(entry, K_storage, EmptyMap)
         IN IF ~IsMap(entry_storage) THEN RaiseTab
            ELSE LET url == FirstUrl(entry_storage)
                     title_value == typed_value(MapGet(entry_storage, K_title, JNull))
                 IN IF url = <<>> THEN SkipTab
                    ELSE EmitTab(url, IF IsStr(title_value) THEN title_value.s ELSE <<>>)

NumericKeys(nav_stack) == {StrToInt(k) : k \in {k \in DictKeys(nav_stack.c) : IsDigitStr(k)}}

\* Lines 129-134: the entry under str(current_index), or when that is falsy
\* the entry under str(max(numeric_keys)).
SelectEntry(nav_stack, current_index) ==
    LET entry == MapGet(nav_stack, PyStr(current_index), JNull)
    IN IF Truthy(entry) THEN entry
       ELSE IF NumericKeys(nav_stack) # {}
            THEN MapGet(nav_stack, IntToStr(SetMax(NumericKeys(nav_stack))), JNull)
            ELSE entry

\* Lines 118-126: current index and navigation stack of one tab.
TabIndex(tab_data) ==
    LET raw == PyGet(PyGet(tab_data, K_storage, EmptyMap), K_currentNavigationIndex, JNull)
    IN IF IsRaise(raw) THEN Raise ELSE typed_value(raw)

TabNavStack(tab_data) ==
    PyGet(PyGet(PyGet(tab_data, K_subdirectories, EmptyMap),
                K_navigationStack, EmptyMap),
          K_subdirectories, EmptyMap)

\* Whether the loop body reaches the entry selection for this tab.
ReachesSelection(tab_data) ==
    /\ IsMap(tab_data)
    /\ ~IsRaise(TabIndex(tab_data)) /\ TabIndex(tab_data).t # "null"
    /\ IsMap(TabNavStack(tab_data)) /\ Truthy(TabNavStack(tab_data))

TabResult(tab_data) ==
    IF ~IsMap(tab_data) THEN SkipTab
    ELSE IF IsRaise(TabIndex(tab_data)) THEN RaiseTab
    ELSE IF TabIndex(tab_data).t = "null" THEN SkipTab
    ELSE IF IsRaise(TabNavStack(tab_data)) THEN RaiseTab
    ELSE IF ~IsMap(TabNavStack(tab_data)) \/ ~Truthy(TabNavStack(tab_data)) THEN SkipTab
    ELSE EntryResult(SelectEntry(TabNavStack(tab_data), TabIndex(tab_data)))

\* The links appended by the iterations, in order.
RECURSIVE EmittedLinks(_)
EmittedLinks(results) ==
    IF results = <<>> THEN <<>> ELSE Head(results).link \o EmittedLinks(Tail(results))

\* A raising iteration aborts the call: no list is returned.
LoopResult(results) ==
    IF \E i \in 1..Len(results) : results[i].outcome = "raise"
    THEN [raised |-> TRUE, links |-> <<>>]
    ELSE [raised |-> FALSE, links |-> EmittedLinks(results)]

\* Lines 105-111
WebContents(c) ==
    PyGet(PyGet(PyGet(PyGet(PyGet(c, K_subdirectories, EmptyMap),
                            K_tabstripmodel, EmptyMap),
                      K_subdirectories, EmptyMap),
                K_webcontents, EmptyMap),
          K_subdirectories, EmptyMap)

extract_tabs_from_content(c) ==
    IF IsRaise(WebContents(c)) THEN [raised |-> TRUE, links |-> <<>>]
    ELSE IF ~IsMap(WebContents(c)) THEN [raised |-> FALSE, links |-> <<>>]
    ELSE LoopResult([i \in 1..Len(WebContents(c).c) |-> TabResult(WebContents(c).c[i][2])])

(***************************************************************************)
(* Content nodes given to extract_tabs_from_content.                       *)
(***************************************************************************)
MaxNavKeys == 3

Obj1(k, x) == JMap(<< <<k, x>> >>)

RECURSIVE Nest(_, _)
Nest(keys, leaf) ==
    IF keys = <<>> THEN leaf ELSE Obj1(Head(keys), Nest(Tail(keys), leaf))

\* Values that are not a mapping: a string, a number, a list, null.
WrongTyped == {JStr(<<"x">>), JInt(7), JList(<<>>), JNull}

TabPath == <<K_subdirectories, K_tabstripmodel, K_subdirectories, K_webcontents, K_subdirectories>>

\* The path with segment i holding a non-mapping, or with segment i missing.
BrokenTabContents ==
    {Nest(SubSeq(TabPath, 1, i), w) : i \in 1..5, w \in WrongTyped}
        \cup {Nest(SubSeq(TabPath, 1, i - 1), EmptyMap) : i \in 1..5}

EntryWith(entry_storage) == Obj1(K_storage, entry_storage)

GoodEntry(key) ==
    EntryWith(JMap(<< <<K_url, JStr(<<"u">> \o key)>>, <<K_title, JStr(<<"T">>)>> >>))

NavKeyOrder == << <<"0">>, <<"1">>, <<"3">>, <<"0", "3">>, <<"x">> >>
EntryKinds == {"good", "empty", "str"}

EntryOfKind(kind, key) ==
    CASE kind = "good" -> GoodEntry(key)
      [] kind = "empty" -> EmptyMap
      [] OTHER -> JStr(<<"s">>)

\* The navigation stack with the keys NavKeyOrder[i], i in S, of the kinds f.
NavOf(S, f) ==
    LET ks == SelectSeq([i \in 1..Len(NavKeyOrder) |-> i], LAMBDA i : i \in S)
    IN JMap([j \in 1..Len(ks) |-> <<NavKeyOrder[ks[j]], EntryOfKind(f[ks[j]], NavKeyOrder[ks[j]])>>])

NavStacks ==
    UNION {{NavOf(S, f) : f \in [S -> EntryKinds]} :
           S \in {S \in SUBSET (1..Len(NavKeyOrder)) :
                     Cardinality(S) >= 1 /\ Cardinality(S) <= MaxNavKeys}}

TabOf(tab_storage, subdirs) == JMap(<< <<K_storage, tab_storage>>, <<K_subdirectories, subdirs>> >>)

NavSubdirs(nav_stack) == Obj1(K_navigationStack, Obj1(K_subdirectories, nav_stack))

IndexStorage(ci) == Obj1(K_currentNavigationIndex, ci)

DefaultNav == JMap(<< <<<<"3">>, GoodEntry(<<"3">>)>> >>)

\* Every navigation stack under the indices 0, 2 and 3.
TabsByIndexAndStack ==
    {TabOf(IndexStorage(JInt(n)), NavSubdirs(nav)) : n \in {0, 2, 3}, nav \in NavStacks}

\* Shapes of the tab's storage and of the stored index.
TabsByStorage ==
    {TabOf(s, NavSubdirs(DefaultNav)) :
        s \in WrongTyped \cup {EmptyMap}
              \cup {IndexStorage(ci) :
                      ci \in {JNull, JStr(<<"3">>), JBool(TRUE), Obj1(K_value, JInt(3)),
                              Obj1(K_value, JNull), Obj1(K_value, JStr(<<"2">>))}}}
        \cup {Obj1(K_subdirectories, NavSubdirs(DefaultNav))}

\* Shapes of the path to the navigation stack.
TabsByNavPath ==
    {TabOf(IndexStorage(JInt(3)), sd) :
        sd \in WrongTyped \cup {EmptyMap}
               \cup {Obj1(K_navigationStack, x) : x \in WrongTyped \cup {EmptyMap}}
               \cup {NavSubdirs(x) : x \in WrongTyped \cup {EmptyMap}}}
        \cup {Obj1(K_storage, IndexStorage(JInt(3)))}

UrlShapes(name) ==
    {<<>>, <<JStr(<<>>)>>, <<JStr(name)>>, <<Obj1(K_value, JStr(name))>>, <<JInt(5)>>}

TitleShapes == {<<>>, <<JStr(<<"T">>)>>, <<Obj1(K_value, JStr(<<"T">>))>>, <<JInt(1)>>}

\* A dict with the given keys, each present when its shape is non-empty.
OptDict(ks, shapes) ==
    LET present == SelectSeq([i \in 1..Len(ks) |-> i], LAMBDA i : shapes[i] # <<>>)
    IN JMap([j \in 1..Len(present) |-> <<ks[present[j]], shapes[present[j]][1]>>])

EntryStorages ==
    {OptDict(<<K_virtualUrl, K_originalRequestUrl, K_url, K_title>>, <<a, b, c, d>>) :
        a \in UrlShapes(<<"v">>), b \in UrlShapes(<<"o">>),
        c \in UrlShapes(<<"u">>), d \in TitleShapes}

\* Shapes of the selected entry.
TabsByEntry ==
    {TabOf(IndexStorage(JInt(3)), NavSubdirs(JMap(<< <<<<"3">>, e>> >>))) :
        e \in WrongTyped \cup {JInt(0), JBool(TRUE), JList(<<JNull>>)}
              \cup {EntryWith(s) : s \in WrongTyped \cup EntryStorages}}

TabShapes ==
    TabsByIndexAndStack \cup TabsByStorage \cup TabsByNavPath \cup TabsByEntry \cup WrongTyped

GoodTab == TabOf(IndexStorage(JInt(0)), NavSubdirs(JMap(<< <<<<"0">>, GoodEntry(<<"g">>)>> >>)))
GoodLink == [url |-> <<"u", "g">>, title |-> <<"T">>]

\* webcontents.subdirectories: one tab of any shape, alone or beside a good tab.
WebLayouts ==
    UNION {{JMap(<< <<<<"a">>, tb>> >>),
            JMap(<< <<<<"a">>, GoodTab>>, <<<<"b">>, tb>> >>),
            JMap(<< <<<<"a">>, tb>>, <<<<"b">>, GoodTab>> >>)} : tb \in TabShapes}

TabContents == BrokenTabContents \cup {Nest(TabPath, web) : web \in WebLayouts}

InitTabs ==
    /\ pc = "start"
    /\ content \in TabContents
    /\ links = <<>> /\ raised = FALSE
    /\ MergeIdle /\ GzIdle /\ ScanIdle /\ WalkIdle /\ SanIdle

\* One call extract_tabs_from_content(content).
ExtractTabs ==
    /\ pc = "start"
    /\ links' = extract_tabs_from_content(content).links
    /\ raised' = extract_tabs_from_content(content).raised
    /\ pc' = "done"
    /\ UNCHANGED <<content, mergeVars, gzVars, scanVars, walkVars, sanVars>>

NextTabs == ExtractTabs

SpecTabs == InitTabs /\ [][NextTabs]_vars

(***************************************************************************)
(* Properties of tab extraction.                                           *)
(***************************************************************************)
Absent == JVal("absent", 0, <<>>, <<>>)

\* The value reached by following keys through mappings, Absent when a
\* segment is missing or is reached through a non-mapping.
RECURSIVE PathValue(_, _)
PathValue(x, keys) ==
    IF keys = <<>> THEN x
    ELSE IF IsMap(x) /\ DictHas(x.c, Head(keys))
         THEN PathValue(DictGet(x.c, Head(keys)), Tail(keys))
         ELSE Absent

PathIntact(c, keys) == IsMap(PathValue(c, keys))

\* C4: extract_tabs_from_content never fails; a missing or non-mapping path
\* segment gives the empty list, and a wrong-typed value inside one tab only
\* skips that tab (the good tab beside it is still extracted).
C4_TabsNeverFail ==
    pc = "done" =>
        /\ ~raised
        /\ ~PathIntact(content, TabPath) => links = <<>>
        /\ (PathIntact(content, TabPath)
            /\ GoodTab \in Range(DictValues(PathValue(content, TabPath).c)))
               => GoodLink \in Range(links)

IntKeys(nav_stack) == {k \in DictKeys(nav_stack.c) : IsDigitStr(k)}

\* The entries C8 allows for a tab: the one under str(current_index) when that
\* key is present, else one under a key of largest integer value, else none.
ClaimedEntries(nav_stack, current_index) ==
    IF DictHas(nav_stack.c, PyStr(current_index))
    THEN {DictGet(nav_stack.c, PyStr(current_index))}
    ELSE IF IntKeys(nav_stack) # {}
         THEN {DictGet(nav_stack.c, k) :
                 k \in {k \in IntKeys(nav_stack) :
                          \A k2 \in IntKeys(nav_stack) : StrToInt(k2) <= StrToInt(k)}}
         ELSE {JNull}

ClaimedTabResults(tab_data) ==
    IF ReachesSelection(tab_data)
    THEN {EntryResult(e) : e \in ClaimedEntries(TabNavStack(tab_data), TabIndex(tab_data))}
    ELSE {TabResult(tab_data)}

\* C8: for every tab with a current index and a non-empty navigation stack the
\* entry used is the one keyed by str(current index) when that key is present,
\* else the one under the largest integer key, and the tab is skipped only when
\* neither exists: the call's outcome is the one these entries give.
C8_IndexThenLargestKey ==
    (pc = "done" /\ PathIntact(content, TabPath)) =>
        LET tabvals == DictValues(PathValue(content, TabPath).c)
        IN \E rs \in [1..Len(tabvals) -> UNION {ClaimedTabResults(tabvals[i]) : i \in 1..Len(tabvals)}] :
               /\ \A i \in 1..Len(tabvals) : rs[i] \in ClaimedTabResults(tabvals[i])
               /\ LoopResult(rs) = [raised |-> raised, links |-> links]

(***************************************************************************)
(* extract_favorites_from_content                                          *)
(***************************************************************************)
FavoriteLink(node) ==
    <<[url |-> MapGet(node, K_url, JNull).s,
       title |-> IF IsStr(MapGet(node, K_title, JNull))
                 THEN MapGet(node, K_title, JNull).s ELSE <<>>]>>

\* A bug that keeps folders: the nodeType test is left out.
FavoriteResultAnyNodeType(entry) ==
    LET node == typed_value(entry)
    IN IF ~IsMap(node) THEN <<>>
       ELSE IF ~IsStr(MapGet(node, K_url, JNull)) \/ MapGet(node, K_url, JNull).s = <<>>
            THEN <<>>
            ELSE FavoriteLink(node)

\* Lines 163-171: the links one storage value contributes (none or one).
FavoriteResult(entry) ==
    LET node == typed_value(entry)
    IN IF ~IsMap(node) THEN <<>>
       ELSE IF \/ PyStr(MapGet(node, K_nodeType, JNull)) # <<"1">>
               \/ ~IsStr(MapGet(node, K_url, JNull))
               \/ MapGet(node, K_url, JNull).s = <<>>
            THEN <<>>
            ELSE FavoriteLink(node)

RECURSIVE FavoriteLinksFrom(_, _)
FavoriteLinksFrom(entries, i) ==
    IF i > Len(entries) THEN <<>>
    ELSE FavoriteResult(entries[i]) \o FavoriteLinksFrom(entries, i + 1)

extract_favorites_from_content(c) ==
    LET favs == PyGet(PyGet(c, K_subdirectories, EmptyMap), K_favorites, EmptyMap)
    IN IF IsRaise(favs) THEN [raised |-> TRUE, links |-> <<>>]
       ELSE IF ~IsMap(favs) \/ ~IsMap(MapGet(favs, K_storage, EmptyMap))
            THEN [raised |-> FALSE, links |-> <<>>]
            ELSE [raised |-> FALSE,
                  links |-> FavoriteLinksFrom(DictValues(MapGet(favs, K_storage, EmptyMap).c), 1)]

(***************************************************************************)
(* Content nodes given to extract_favorites_from_content.                  *)
(***************************************************************************)
MaxFavorites == 2

FavPath == <<K_subdirectories, K_favorites, K_storage>>

BrokenFavContents ==
    {Nest(SubSeq(FavPath, 1, i), w) : i \in 1..3, w \in WrongTyped}
        \cup {Nest(SubSeq(FavPath, 1, i - 1), EmptyMap) : i \in 1..3}

NodeTypeShapes ==
    {<<>>, <<JInt(1)>>, <<JStr(<<"1">>)>>, <<JInt(2)>>, <<JBool(TRUE)>>,
     <<JStr(<<"0", "1">>)>>, <<JNull>>}

FavUrlShapes == {<<>>, <<JStr(<<>>)>>, <<JStr(<<"u">>)>>, <<JInt(3)>>}

FavTitleShapes == {<<>>, <<JStr(<<"T">>)>>, <<JInt(1)>>}

FavNodes ==
    {OptDict(<<K_nodeType, K_url, K_title>>, <<a, b, c>>) :
        a \in NodeTypeShapes, b \in FavUrlShapes, c \in FavTitleShapes}

\* Storage values: a node bare or boxed, or something that is no mapping.
FavEntries ==
    FavNodes \cup {Obj1(K_value, n) : n \in FavNodes}
             \cup WrongTyped \cup {Obj1(K_value, w) : w \in WrongTyped}

FavNode(node_type, url, title) ==
    JMap(<< <<K_nodeType, node_type>>, <<K_url, JStr(url)>>, <<K_title, JStr(title)>> >>)

\* Entries combined into storages of several values.
FavEntrySamples ==
    {FavNode(JInt(1), <<"a">>, <<"A">>),
     Obj1(K_value, FavNode(JStr(<<"1">>), <<"b">>, <<>>)),
     FavNode(JInt(2), <<"f">>, <<"F">>),
     FavNode(JInt(1), <<>>, <<"E">>),
     JMap(<< <<K_nodeType, JInt(1)>>, <<K_url, JStr(<<"z">>)>>, <<K_value, JStr(<<"q">>)>> >>),
     JStr(<<"x">>)}

StorageOf(entries) == JMap([i \in 1..Len(entries) |-> <<NatToStr(i - 1), entries[i]>>])

FavStorages ==
    {StorageOf(<<e>>) : e \in FavEntries}
        \cup {StorageOf(es) : es \in SeqsUpTo(FavEntrySamples, MaxFavorites)}

FavContents == BrokenFavContents \cup {Nest(FavPath, st) : st \in FavStorages}

InitFavorites ==
    /\ pc = "start"
    /\ content \in FavContents
    /\ links = <<>> /\ raised = FALSE
    /\ MergeIdle /\ GzIdle /\ ScanIdle /\ WalkIdle /\ SanIdle

\* One call extract_favorites_from_content(content).
ExtractFavorites ==
    /\ pc = "start"
    /\ links' = extract_favorites_from_content(content).links
    /\ raised' = extract_favorites_from_content(content).raised
    /\ pc' = "done"
    /\ UNCHANGED <<content, mergeVars, gzVars, scanVars, walkVars, sanVars>>

NextFavorites == ExtractFavorites

SpecFavorites == InitFavorites /\ [][NextFavorites]_vars

(***************************************************************************)
(* Properties of favorite extraction.                                      *)
(***************************************************************************)
Unwrapped(entry) ==
    IF entry.t = "map" /\ \E i \in 1..Len(entry.c) : entry.c[i][1] = K_value
    THEN entry.c[CHOOSE i \in 1..Len(entry.c) : entry.c[i][1] = K_value][2]
    ELSE entry

Field(node, k) == PathValue(node, <<k>>)

\* A mapping whose nodeType is 1 or "1" and whose url is a non-empty string.
IsBookmark(node) ==
    /\ node.t = "map"
    /\ Field(node, K_nodeType) \in {JInt(1), JStr(<<"1">>)}
    /\ Field(node, K_url).t = "str" /\ Field(node, K_url).s # <<>>

BookmarkLink(node) ==
    [url |-> Field(node, K_url).s,
     title |-> IF Field(node, K_title).t = "str" THEN Field(node, K_title).s ELSE <<>>]

\* C9: the links are, in storage order, one record for exactly the storage
\* values that unwrap to a mapping with nodeType "1" and a non-empty string
\* url; every record has a non-empty url and the node's title when that is a
\* string, else "".  Without a storage mapping nothing is emitted.
C9_FavoritesAreBookmarks ==
    pc = "done" =>
        /\ \A i \in 1..Len(links) : links[i].url # <<>>
        /\ IF PathIntact(content, FavPath)
           THEN LET vals == DictValues(PathValue(content, FavPath).c)
                    picked == SelectSeq([i \in 1..Len(vals) |-> i],
                                        LAMBDA i : IsBookmark(Unwrapped(vals[i])))
                IN /\ ~raised
                   /\ links = [j \in 1..Len(picked) |-> BookmarkLink(Unwrapped(vals[picked[j]]))]
           ELSE links = <<>>

C9_Witness ==
    /\ pc = "done" /\ PathIntact(content, FavPath)
    /\ Len(PathValue(content, FavPath).c) = 2
    /\ Len(links) = 1
    /\ \E i \in 1..2 :
          LET e == PathValue(content, FavPath).c[i][2]
          IN e.t = "map" /\ Field(e, K_nodeType) = JInt(2) /\ Field(e, K_url).t = "str"

(***************************************************************************)
(* iter_gzip_offsets and decompress_payloads.                              *)
(*                                                                         *)
(* zlib is a library outside the repository.  decompress_payloads reads    *)
(* three things from it: whether the decompressor raised zlib.error,       *)
(* whether it reached the end of the stream (eof), and the output.  The    *)
(* model keeps these three outcomes with a small stream format: the two    *)
(* magic bytes, a length byte n, n stored bytes (the output) and a check   *)
(* byte, the sum of the output modulo 256.  As in gzip, bytes after the    *)
(* end of the stream are ignored, a stream that is cut short ends without  *)
(* eof, a failed check raises, and stored bytes may themselves hold a      *)
(* stream.                                                                 *)
(***************************************************************************)
MaxFragments == 3

GZIP_MAGIC == <<31, 139>>

RECURSIVE SumBytes(_)
SumBytes(bs) == IF bs = <<>> THEN 0 ELSE Head(bs) + SumBytes(Tail(bs))

CheckByte(out) == SumBytes(out) % 256

\* decompressobj(16 + MAX_WBITS).decompress(bs): status is "eof", "partial"
\* (input exhausted before the end of the stream) or "error" (zlib.error).
Inflate(bs) ==
    IF Len(bs) < 2 \/ SubSeq(bs, 1, 2) # GZIP_MAGIC THEN [status |-> "error", out |-> <<>>]
    ELSE IF Len(bs) < 3 THEN [status |-> "partial", out |-> <<>>]
    ELSE IF Len(bs) < 3 + bs[3] + 1
         THEN [status |-> "partial", out |-> SubSeq(bs, 4, Len(bs))]
    ELSE IF bs[4 + bs[3]] # CheckByte(SubSeq(bs, 4, 3 + bs[3]))
         THEN [status |-> "error", out |-> <<>>]
    ELSE [status |-> "eof", out |-> SubSeq(bs, 4, 3 + bs[3])]

\* hashlib.sha256(out).digest(), taken as collision-free: the digest names
\* the output it was computed from.
Sha256(out) == <<"sha256", out>>

\* data.find(GZIP_MAGIC, from), with Python's 0-based offsets; -1 when absent.
MagicAt(d, i) == i + 2 <= Len(d) /\ d[i + 1] = GZIP_MAGIC[1] /\ d[i + 2] = GZIP_MAGIC[2]

Find(d, from) ==
    IF \E i \in from..(Len(d) - 2) : MagicAt(d, i)
    THEN CHOOSE i \in from..(Len(d) - 2) :
             MagicAt(d, i) /\ \A j \in from..(i - 1) : ~MagicAt(d, j)
    ELSE -1

\* decompressor.decompress(data[idx:])
InflateAt(d, i) == Inflate(SubSeq(d, i + 1, Len(d)))

\* A bug that forgets the seen set.
DigestSeenNever(digest, seenset) == FALSE

\* digest in seen
DigestSeen(digest, seenset) == digest \in seenset

\* Lines 49-53: the candidate at offset i is appended.
Accepted(d, i, seenset) ==
    /\ InflateAt(d, i).status = "eof"
    /\ InflateAt(d, i).out # <<>>
    /\ ~DigestSeen(Sha256(InflateAt(d, i).out), seenset)

StreamOf(out) == GZIP_MAGIC \o <<Len(out)>> \o out \o <<CheckByte(out)>>

Fragments ==
    {<<65>>,                                      \* a byte of something else
     <<31>>,                                      \* half of the magic
     GZIP_MAGIC,                                  \* the magic and nothing behind it
     StreamOf(<<65>>),
     StreamOf(<<66, 67>>),
     StreamOf(<<>>),                              \* a stream with empty output
     GZIP_MAGIC \o <<1, 65, 66>>,                 \* a stream failing its check
     GZIP_MAGIC \o <<3, 65>>,                     \* a stream cut short
     StreamOf(StreamOf(<<65>>) \o <<68>>)}        \* a stream storing a stream

RECURSIVE Flatten(_)
Flatten(ss) == IF ss = <<>> THEN <<>> ELSE Head(ss) \o Flatten(Tail(ss))

Blobs == {Flatten(fs) : fs \in SeqsUpTo(Fragments, MaxFragments)}

InitGzip ==
    /\ pc = "scan"
    /\ data \in Blobs
    /\ start = 0 /\ payloads = <<>> /\ seen = {}
    /\ MergeIdle /\ ScanIdle /\ WalkIdle /\ ExtractIdle /\ SanIdle

\* One iteration of the loop over iter_gzip_offsets that appends a payload.
AppendPayload ==
    /\ pc = "scan"
    /\ Find(data, start) # -1
    /\ Accepted(data, Find(data, start), seen)
    /\ seen' = seen \cup {Sha256(InflateAt(data, Find(data, start)).out)}
    /\ payloads' = Append(payloads, InflateAt(data, Find(data, start)).out)
    /\ start' = Find(data, start) + 1
    /\ UNCHANGED <<pc, data, mergeVars, scanVars, walkVars, extractVars, sanVars>>

\* One iteration that continues: zlib.error, no eof, empty output or seen digest.
SkipCandidate ==
    /\ pc = "scan"
    /\ Find(data, start) # -1
    /\ ~Accepted(data, Find(data, start), seen)
    /\ start' = Find(data, start) + 1
    /\ UNCHANGED <<pc, data, payloads, seen, mergeVars, scanVars, walkVars, extractVars, sanVars>>

\* No further magic: the generator returns and the payload list is returned.
ReturnPayloads ==
    /\ pc = "scan"
    /\ Find(data, start) = -1
    /\ pc' = "done"
    /\ UNCHANGED <<data, start, payloads, seen, mergeVars, scanVars, walkVars, extractVars, sanVars>>

NextGzip == AppendPayload \/ SkipCandidate \/ ReturnPayloads

SpecGzip == InitGzip /\ [][NextGzip]_vars

(***************************************************************************)
(* Properties of stream recovery.                                          *)
(***************************************************************************)
\* Offsets of the magic whose candidate ends cleanly with non-empty output.
ValidOffsets(d) ==
    {i \in 0..(Len(d) - 2) :
        MagicAt(d, i) /\ InflateAt(d, i).status = "eof" /\ InflateAt(d, i).out # <<>>}

FirstOffsetOf(d, out) ==
    CHOOSE i \in ValidOffsets(d) :
        /\ InflateAt(d, i).out = out
        /\ \A j \in ValidOffsets(d) : InflateAt(d, j).out = out => i <= j

RecoveredExactly(d, ps) ==
    /\ \A k, l \in 1..Len(ps) : ps[k] = ps[l] => k = l
    /\ \A k, l \in 1..Len(ps) : Sha256(ps[k]) = Sha256(ps[l]) => k = l
    /\ Range(ps) = {InflateAt(d, i).out : i \in ValidOffsets(d)}
    /\ \A k, l \in 1..Len(ps) : k < l => FirstOffsetOf(d, ps[k]) < FirstOffsetOf(d, ps[l])

\* d is n >= 1 copies of one stream that ends cleanly with non-empty output.
IsRepeatedStream(d) ==
    \E n \in 1..Len(d) :
        /\ Len(d) % n = 0
        /\ \A i \in 1..Len(d) : d[i] = d[((i - 1) % n) + 1]
        /\ Inflate(SubSeq(d, 1, n)).status = "eof"
        /\ Inflate(SubSeq(d, 1, n)).out # <<>>
        /\ n = 4 + d[3]

MaxBytes == 3

NEWLINE == 10
SPACE == 32
\* U+FFFD, what the "replace" error handler substitutes.
ReplacementChar == <<65533>>

\* b"\n".join(payloads)
RECURSIVE JoinFrom(_, _)
JoinFrom(ps, i) ==
    IF i > Len(ps) THEN <<>>
    ELSE IF i = Len(ps) THEN ps[i]
    ELSE ps[i] \o <<NEWLINE>> \o JoinFrom(ps, i + 1)

IsContinuation(b) == b >= 128 /\ b <= 191
IsLead2(b) == b >= 194 /\ b <= 223

\* bytes.decode("utf-8", errors=...) over one- and two-byte sequences, where
\* on_error is what the error handler puts in place of an undecodable byte:
\* nothing for "ignore", U+FFFD for "replace".  Lead bytes of three- and
\* four-byte sequences (0xE0-0xF4) do not occur in the modelled inputs.
RECURSIVE Utf8Decode(_, _, _)
Utf8Decode(bs, i, on_error) ==
    IF i > Len(bs) THEN <<>>
    ELSE IF bs[i] < 128 THEN <<bs[i]>> \o Utf8Decode(bs, i + 1, on_error)
    ELSE IF IsLead2(bs[i]) /\ i < Len(bs) /\ IsContinuation(bs[i + 1])
         THEN <<(bs[i] - 192) * 64 + (bs[i + 1] - 128)>> \o Utf8Decode(bs, i + 2, on_error)
    ELSE on_error \o Utf8Decode(bs, i + 1, on_error)

DecodeReplace(bs) == Utf8Decode(bs, 1, ReplacementChar)

\* .decode("utf-8", errors="ignore")
Decode(bs) == Utf8Decode(bs, 1, <<>>)

\* "".join(ch if ord(ch) >= 0x20 else " " for ch in text)
Scrub(txt) == [i \in 1..Len(txt) |-> IF txt[i] >= 32 THEN txt[i] ELSE SPACE]

\* NUL, unit separator, "A", the two bytes of U+00E9, and a byte that never
\* occurs in UTF-8.
ByteChoices == {0, 31, 65, 195, 169, 255}

\* bs cut into payloads after the positions in cuts.
RECURSIVE SplitAt(_, _, _)
SplitAt(bs, cuts, from) ==
    IF \E c \in cuts : c >= from
    THEN LET c == CHOOSE c \in cuts : c >= from /\ \A c2 \in cuts : c2 >= from => c <= c2
         IN <<SubSeq(bs, from, c)>> \o SplitAt(bs, cuts, c + 1)
    ELSE <<SubSeq(bs, from, Len(bs))>>

\* Non-empty lists of non-empty payloads, as decompress_payloads returns them.
PayloadLists ==
    UNION {{SplitAt(bs, cuts, 1) : cuts \in SUBSET (1..(Len(bs) - 1))} :
           bs \in SeqsUpTo(ByteChoices, MaxBytes) \ {<<>>}}

InitSanitize ==
    /\ pc = "start"
    /\ raw_payloads \in PayloadLists
    /\ decoded = <<>> /\ clean = <<>>
    /\ MergeIdle /\ GzIdle /\ ScanIdle /\ WalkIdle /\ ExtractIdle

\* Lines 177-178 of extract_workspace_data.
Sanitize ==
    /\ pc = "start"
    /\ decoded' = Decode(JoinFrom(raw_payloads, 1))
    /\ clean' = Scrub(Decode(JoinFrom(raw_payloads, 1)))
    /\ pc' = "done"
    /\ UNCHANGED <<raw_payloads, mergeVars, gzVars, scanVars, walkVars, extractVars>>

NextSanitize == Sanitize

SpecSanitize == InitSanitize /\ [][NextSanitize]_vars

(***************************************************************************)
(* Properties of the sanitizer.                                            *)
(***************************************************************************)
\* The payload bytes with one newline between consecutive payloads.
IsJoinOf(bs, ps) ==
    /\ Len(bs) = SumBytes([k \in 1..Len(ps) |-> Len(ps[k])]) + Len(ps) - 1
    /\ \A k \in 1..Len(ps) :
          LET off == SumBytes([m \in 1..(k - 1) |-> Len(ps[m]) + 1])
          IN /\ SubSeq(bs, off + 1, off + Len(ps[k])) = ps[k]
             /\ k < Len(ps) => bs[off + Len(ps[k]) + 1] = NEWLINE

\* Positions of the joined bytes that start a well-formed UTF-8 sequence.
PairStarts(bs) == {i \in 1..(Len(bs) - 1) : IsLead2(bs[i]) /\ IsContinuation(bs[i + 1])}
AsciiPositions(bs) == {i \in 1..Len(bs) : bs[i] < 128}
Undecodable(bs) ==
    {i \in 1..Len(bs) : bs[i] >= 128 /\ i \notin PairStarts(bs) /\ (i - 1) \notin PairStarts(bs)}

SameLengthScrubbed(txt, cl) ==
    /\ Len(cl) = Len(txt)
    /\ \A i \in 1..Len(txt) : cl[i] = IF txt[i] < 32 THEN SPACE ELSE txt[i]

\* C10 as stated: undecodable bytes are replaced by a substitute character, so
\* every undecodable byte keeps a position in the text.
C10_InvalidBytesReplaced ==
    pc = "done" =>
        LET bs == JoinFrom(raw_payloads, 1)
        IN  /\ IsJoinOf(bs, raw_payloads)
            /\ Len(decoded) = Cardinality(AsciiPositions(bs)) + Cardinality(PairStarts(bs))
                                  + Cardinality(Undecodable(bs))
            /\ Cardinality({i \in 1..Len(decoded) : <<decoded[i]>> = ReplacementChar})
                   = Cardinality(Undecodable(bs))
            /\ SameLengthScrubbed(decoded, clean)

\* C10 amended: undecodable bytes are dropped, not replaced; the text holds
\* one character per well-formed sequence of the joined payloads, and the
\* scrubbed text has its length, with every character below 0x20 a space.
C10_InvalidBytesDropped ==
    pc = "done" =>
        LET bs == JoinFrom(raw_payloads, 1)
        IN  /\ IsJoinOf(bs, raw_payloads)
            /\ Len(decoded) = Cardinality(AsciiPositions(bs)) + Cardinality(PairStarts(bs))
            /\ ReplacementChar[1] \notin Range(decoded)
            /\ SelectSeq(decoded, LAMBDA ch : ch < 128) = SelectSeq(bs, LAMBDA b : b < 128)
            /\ SelectSeq(decoded, LAMBDA ch : ch >= 128)
                   = LET starts == SelectSeq([i \in 1..Len(bs) |-> i], LAMBDA i : i \in PairStarts(bs))
                     IN [j \in 1..Len(starts) |->
                            (bs[starts[j]] - 192) * 64 + (bs[starts[j] + 1] - 128)]
            /\ SameLengthScrubbed(decoded, clean)

C10_Witness ==
    /\ pc = "done"
    /\ Len(raw_payloads) = 2
    /\ 255 \in Range(raw_payloads[1]) \cup Range(raw_payloads[2])
    /\ \E i \in 1..Len(clean) : decoded[i] = NEWLINE /\ clean[i] = SPACE
    /\ Len(clean) = 2

(***************************************************************************)
(* json.JSONDecoder.raw_decode and json.loads, as the scanner and the      *)
(* walker use them.  The json module is a library outside the repository;  *)
(* the model follows its grammar for objects, arrays, strings with the     *)
(* escapes \" \\ \/ \n \t \r, the literals null, true and false, and       *)
(* integers.  Fractions, exponents, \u escapes, NaN and Infinity do not    *)
(* occur in the modelled texts.  Positions are Python's 0-based offsets.   *)
(***************************************************************************)
Whitespace == {" ", "\t", "\n", "\r"}

\* s[p:p+1]
CharAt(s, p) == IF p >= 0 /\ p < Len(s) THEN s[p + 1] ELSE ""

\* WHITESPACE.match(s, p).end()
RECURSIVE SkipWs(_, _)
SkipWs(s, p) == IF CharAt(s, p) \in Whitespace THEN SkipWs(s, p + 1) ELSE p

ParseFail == [ok |-> FALSE, val |-> JNull, end |-> 0]
ParseOk(x, e) == [ok |-> TRUE, val |-> x, end |-> e]

Unescape(c) ==
    CASE c = "n" -> "\n" [] c = "t" -> "\t" [] c = "r" -> "\r" [] OTHER -> c

\* scanstring(s, p) with p just past the opening quote (strict mode).
RECURSIVE ScanString(_, _, _)
ScanString(s, p, acc) ==
    LET ch == CharAt(s, p)
    IN IF ch = "" \/ ch \in {"\t", "\n", "\r"} THEN ParseFail
       ELSE IF ch = "\"" THEN ParseOk(JStr(acc), p + 1)
       ELSE IF ch = "\\"
            THEN IF CharAt(s, p + 1) \in {"\"", "\\", "/", "n", "t", "r"}
                 THEN ScanString(s, p + 2, Append(acc, Unescape(CharAt(s, p + 1))))
                 ELSE ParseFail
       ELSE ScanString(s, p + 1, Append(acc, ch))

\* End of the digits starting at p.
RECURSIVE DigitsEnd(_, _)
DigitsEnd(s, p) ==
    IF CharAt(s, p) \in Range(DigitChars) THEN DigitsEnd(s, p + 1) ELSE p

\* NUMBER_RE.match(s, p), integer part: -?(0|[1-9][0-9]*)
ScanNumber(s, p) ==
    LET neg == CharAt(s, p) = "-"
        q == IF neg THEN p + 1 ELSE p
        e == IF CharAt(s, q) = "0" THEN q + 1 ELSE DigitsEnd(s, q)
    IN IF e = q THEN ParseFail
       ELSE ParseOk(JInt((IF neg THEN -1 ELSE 1) * StrToInt(SubSeq(s, q + 1, e))), e)

IsLiteralAt(s, p, lit) == SubSeq(s, p + 1, p + Len(lit)) = lit /\ p + Len(lit) <= Len(s)

RECURSIVE ScanOnce(_, _)
RECURSIVE ParseMembers(_, _, _)
RECURSIVE ParseElements(_, _, _)

\* JSONObject, p just past "{".
ParseObject(s, p) ==
    LET p1 == IF CharAt(s, p) # "\"" THEN SkipWs(s, p) ELSE p
    IN IF CharAt(s, p) # "\"" /\ CharAt(s, p1) = "}" THEN ParseOk(EmptyMap, p1 + 1)
       ELSE IF CharAt(s, p1) # "\"" THEN ParseFail
       ELSE ParseMembers(s, p1 + 1, <<>>)

\* The loop of JSONObject, p just past the opening quote of a key.
ParseMembers(s, p, pairs) ==
    LET k == ScanString(s, p, <<>>)
    IN IF ~k.ok THEN ParseFail
       ELSE LET colon == SkipWs(s, k.end)
            IN IF CharAt(s, colon) # ":" THEN ParseFail
               ELSE LET x == ScanOnce(s, SkipWs(s, colon + 1))
                    IN IF ~x.ok THEN ParseFail
                       ELSE LET q == SkipWs(s, x.end)
                                ps == DictSet(pairs, k.val.s, x.val)
                            IN IF CharAt(s, q) = "}" THEN ParseOk(JMap(ps), q + 1)
                               ELSE IF CharAt(s, q) # "," THEN ParseFail
                               ELSE IF CharAt(s, SkipWs(s, q + 1)) # "\"" THEN ParseFail
                               ELSE ParseMembers(s, SkipWs(s, q + 1) + 1, ps)

\* JSONArray, p just past "[".
ParseArray(s, p) ==
    IF CharAt(s, SkipWs(s, p)) = "]" THEN ParseOk(JList(<<>>), SkipWs(s, p) + 1)
    ELSE ParseElements(s, SkipWs(s, p), <<>>)

\* The loop of JSONArray, p at the start of a value.
ParseElements(s, p, items) ==
    LET x == ScanOnce(s, p)
    IN IF ~x.ok THEN ParseFail
       ELSE LET q == SkipWs(s, x.end)
            IN IF CharAt(s, q) = "]" THEN ParseOk(JList(Append(items, x.val)), q + 1)
               ELSE IF CharAt(s, q) # "," THEN ParseFail
               ELSE ParseElements(s, SkipWs(s, q + 1), Append(items, x.val))

\* scanner.py_make_scanner._scan_once
ScanOnce(s, p) ==
    LET ch == CharAt(s, p)
    IN CASE ch = "\"" -> ScanString(s, p + 1, <<>>)
         [] ch = "{" -> ParseObject(s, p + 1)
         [] ch = "[" -> ParseArray(s, p + 1)
         [] ch = "n" /\ IsLiteralAt(s, p, <<"n", "u", "l", "l">>) -> ParseOk(JNull, p + 4)
         [] ch = "t" /\ IsLiteralAt(s, p, <<"t", "r", "u", "e">>) -> ParseOk(JBool(TRUE), p + 4)
         [] ch = "f" /\ IsLiteralAt(s, p, <<"f", "a", "l", "s", "e">>) -> ParseOk(JBool(FALSE), p + 5)
         [] OTHER -> ScanNumber(s, p)

\* decoder.raw_decode(text, idx): ok is FALSE when JSONDecodeError is raised.
raw_decode(s, i) == ScanOnce(s, i)

\* json.loads(s): one value with only whitespace around it.
json_loads(s) ==
    LET r == raw_decode(s, SkipWs(s, 0))
    IN IF r.ok /\ SkipWs(s, r.end) = Len(s) THEN r ELSE ParseFail

(***************************************************************************)
(* iter_json_objects: one action per iteration of the while loop.          *)
(* yielded records each value with the cursor before and after its parse.  *)
(***************************************************************************)
MaxPieces == 3

QUOTE == "\""

ObjectText == <<"{", QUOTE, "a", QUOTE, ":", "1", "}">>
ArrayText == <<"[", "1", ",", "2", "]">>

Pieces ==
    {<<"g">>, <<" ">>, <<",">>, <<"{">>, <<"[">>, <<"]">>, ObjectText, ArrayText}

\* Text without an opening bracket.
Garbage ==
    {<<>>, <<"g">>, <<"g", "a", "r", "b", "a", "g", "e">>, <<"}", " ", "]">>,
     <<QUOTE, ":", "1", ",">>, <<"m", "o", "r", "e">>}

\* Concatenations of pieces, and texts of the shape garbage, object,
\* garbage, array.
Texts ==
    {Flatten(ps) : ps \in SeqsUpTo(Pieces, MaxPieces)}
        \cup {g1 \o ObjectText \o g2 \o ArrayText : g1 \in Garbage, g2 \in Garbage}

\* A bug that resumes one character after the start of a parsed value.
CursorAfterValueRescans(i, r) == i + 1

\* idx = end
CursorAfterValue(i, r) == r.end

\* idx += 1
CursorAfterFailure(i) == i + 1

InitScan ==
    /\ pc = "scanning"
    /\ text \in Texts
    /\ idx = 0 /\ yielded = <<>>
    /\ MergeIdle /\ GzIdle /\ WalkIdle /\ ExtractIdle /\ SanIdle

\* text[idx] not in "{[": idx += 1
SkipChar ==
    /\ pc = "scanning" /\ idx < Len(text)
    /\ CharAt(text, idx) \notin {"{", "["}
    /\ idx' = idx + 1
    /\ UNCHANGED <<pc, text, yielded, mergeVars, gzVars, walkVars, extractVars, sanVars>>

\* raw_decode raised JSONDecodeError: idx += 1
ParseFails ==
    /\ pc = "scanning" /\ idx < Len(text)
    /\ CharAt(text, idx) \in {"{", "["}
    /\ ~raw_decode(text, idx).ok
    /\ idx' = CursorAfterFailure(idx)
    /\ UNCHANGED <<pc, text, yielded, mergeVars, gzVars, walkVars, extractVars, sanVars>>

\* obj, end = raw_decode(text, idx); yield obj; idx = end
YieldValue ==
    /\ pc = "scanning" /\ idx < Len(text)
    /\ CharAt(text, idx) \in {"{", "["}
    /\ raw_decode(text, idx).ok
    /\ yielded' = Append(yielded, [obj |-> raw_decode(text, idx).val, at |-> idx,
                                   end |-> raw_decode(text, idx).end])
    /\ idx' = CursorAfterValue(idx, raw_decode(text, idx))
    /\ UNCHANGED <<pc, text, mergeVars, gzVars, walkVars, extractVars, sanVars>>

\* idx >= len(text): the generator is exhausted.
ScanEnds ==
    /\ pc = "scanning" /\ idx >= Len(text)
    /\ pc' = "done"
    /\ UNCHANGED <<text, idx, yielded, mergeVars, gzVars, walkVars, extractVars, sanVars>>

NextScan == SkipChar \/ ParseFails \/ YieldValue \/ ScanEnds

SpecScan == InitScan /\ [][NextScan]_vars

(***************************************************************************)
(* Properties of the scanner.                                              *)
(***************************************************************************)
ObjectValue == JMap(<< <<<<"a">>, JInt(1)>> >>)
ArrayValue == JList(<<JInt(1), JInt(2)>>)

Closer(ch) == IF ch = "{" THEN "}" ELSE "]"

\* The yielded spans start at a bracket, end at its closing bracket, lie in
\* the text left to right and do not overlap.
SpansInOrder(ys, txt) ==
    /\ \A k \in 1..Len(ys) :
          /\ ys[k].at >= 0 /\ ys[k].at < ys[k].end /\ ys[k].end <= Len(txt)
          /\ CharAt(txt, ys[k].at) \in {"{", "["}
          /\ CharAt(txt, ys[k].end - 1) = Closer(CharAt(txt, ys[k].at))
          /\ ys[k].obj.t = (IF CharAt(txt, ys[k].at) = "{" THEN "map" ELSE "list")
    /\ \A k \in 1..(Len(ys) - 1) : ys[k].end <= ys[k + 1].at

ShapedResult ==
    (\E g1 \in Garbage, g2 \in Garbage : text = g1 \o ObjectText \o g2 \o ArrayText)
        => [k \in 1..Len(yielded) |-> yielded[k].obj] = <<ObjectValue, ArrayValue>>

\* C6: every step of the scan moves the cursor strictly forward; a yield moves
\* it to just past the value, which starts at a bracket at or after the end of
\* the previous value; any other step moves it by exactly one character; a
\* text of the shape garbage, object, garbage, array gives exactly the two.
C6_ScanStep ==
    pc = "scanning" =>
        /\ pc' = "scanning" => idx' > idx
        /\ Len(yielded') = Len(yielded) \/ Len(yielded') = Len(yielded) + 1
        /\ Len(yielded') = Len(yielded) + 1 =>
              /\ SubSeq(yielded', 1, Len(yielded)) = yielded
              /\ yielded'[Len(yielded')].at = idx
              /\ idx' = yielded'[Len(yielded')].end
        /\ (Len(yielded') = Len(yielded) /\ pc' = "scanning") => idx' = idx + 1
        /\ SpansInOrder(yielded', text)
        /\ text' = text
        /\ pc' = "done" => (idx >= Len(text) /\ ShapedResult')

C6_ScannerProgress == [][C6_ScanStep]_vars

C6_Witness ==
    /\ pc = "done"
    /\ \E g1 \in Garbage \ {<<>>}, g2 \in Garbage \ {<<>>} :
          text = g1 \o ObjectText \o g2 \o ArrayText
    /\ Len(yielded) = 2
    /\ yielded[1].at > 0 /\ yielded[2].at > yielded[1].end

(***************************************************************************)
(* iter_content_objects                                                    *)
(***************************************************************************)
MaxWalkDepth == 2

\* str.strip()
Strip(s) ==
    LET solid == {i \in 1..Len(s) : s[i] \notin Whitespace}
    IN IF solid = {} THEN <<>>
       ELSE SubSeq(s, CHOOSE i \in solid : \A j \in solid : i <= j,
                      CHOOSE i \in solid : \A j \in solid : j <= i)

\* candidate.startswith("{") or candidate.startswith("[")
LooksLikeJson(candidate) == candidate # <<>> /\ candidate[1] \in {"{", "["}

\* content = obj.get("content"); if isinstance(content, dict): yield content
OwnContent(x) ==
    IF IsMap(MapGet(x, K_content, JNull)) THEN <<MapGet(x, K_content, JNull)>> ELSE <<>>

\* A walker that does not descend into a mapping that yielded.
RECURSIVE iter_content_objects_stops_at_content(_)
RECURSIVE StopsWalkAll(_, _)
StopsWalkAll(items, i) ==
    IF i > Len(items) THEN <<>>
    ELSE iter_content_objects_stops_at_content(items[i]) \o StopsWalkAll(items, i + 1)

iter_content_objects_stops_at_content(x) ==
    CASE x.t = "map" ->
            IF OwnContent(x) # <<>> THEN OwnContent(x) ELSE StopsWalkAll(DictValues(x.c), 1)
      [] x.t = "list" -> StopsWalkAll(DictValues(x.c), 1)
      [] x.t = "str" ->
            IF LooksLikeJson(Strip(x.s)) /\ json_loads(Strip(x.s)).ok
            THEN iter_content_objects_stops_at_content(json_loads(Strip(x.s)).val)
            ELSE <<>>
      [] OTHER -> <<>>

RECURSIVE iter_content_objects(_)
RECURSIVE WalkAll(_, _)
\* for value in ...: yield from iter_content_objects(value)
WalkAll(items, i) ==
    IF i > Len(items) THEN <<>>
    ELSE iter_content_objects(items[i]) \o WalkAll(items, i + 1)

\* The sequence of content nodes the generator yields.
iter_content_objects(x) ==
    CASE x.t = "map" -> OwnContent(x) \o WalkAll(DictValues(x.c), 1)
      [] x.t = "list" -> WalkAll(DictValues(x.c), 1)
      [] x.t = "str" ->
            IF LooksLikeJson(Strip(x.s)) /\ json_loads(Strip(x.s)).ok
            THEN iter_content_objects(json_loads(Strip(x.s)).val)
            ELSE <<>>
      [] OTHER -> <<>>

(***************************************************************************)
(* JSON values given to the walker.                                        *)
(***************************************************************************)
\* The text {"key":inner}
ObjectTextOf(key, inner) == <<"{", QUOTE>> \o key \o <<QUOTE, ":">> \o inner \o <<"}">>

RECURSIVE Escaped(_)
Escaped(s) ==
    IF s = <<>> THEN <<>>
    ELSE (IF Head(s) \in {QUOTE, "\\"} THEN <<"\\", Head(s)>> ELSE <<Head(s)>>) \o Escaped(Tail(s))

\* The text of the JSON string whose characters are s.
StringTextOf(s) == <<QUOTE>> \o Escaped(s) \o <<QUOTE>>

\* {"content":{"y":1}}
ContentY == ObjectTextOf(K_content, ObjectTextOf(<<"y">>, <<"1">>))

WalkLeaves ==
    {JInt(1), JNull, JStr(<<"x">>), EmptyMap,
     JStr(ContentY),
     JStr(<<" ", "[">> \o ContentY \o <<",", "1", "]", " ">>),
     JStr(<<"{", QUOTE, "c">>),
     JStr(<<"g">> \o ContentY),
     JStr(ContentY \o <<"g">>),
     \* {"content":"{\"content\":{\"y\":1}}"}: the content is itself encoded
     JStr(ObjectTextOf(K_content, StringTextOf(ContentY)))}

Wraps(x) ==
    {Obj1(K_content, x), Obj1(<<"x">>, x), JList(<<JInt(1), x>>),
     JMap(<< <<K_content, x>>, <<<<"k">>, JStr(ContentY)>> >>)}

RECURSIVE WalkValues(_)
WalkValues(d) ==
    IF d = 0 THEN WalkLeaves
    ELSE WalkLeaves \cup UNION {Wraps(x) : x \in WalkValues(d - 1)}

InitWalk ==
    /\ pc = "start"
    /\ obj \in WalkValues(MaxWalkDepth)
    /\ contents = <<>>
    /\ MergeIdle /\ GzIdle /\ ScanIdle /\ ExtractIdle /\ SanIdle

\* The generator iter_content_objects(obj) run to exhaustion.
Walk ==
    /\ pc = "start"
    /\ contents' = iter_content_objects(obj)
    /\ pc' = "done"
    /\ UNCHANGED <<obj, mergeVars, gzVars, scanVars, extractVars, sanVars>>

NextWalk == Walk

SpecWalk == InitWalk /\ [][NextWalk]_vars

(***************************************************************************)
(* Properties of the walker.                                               *)
(***************************************************************************)
\* What is directly reachable from a value: the values of a mapping, the
\* elements of a list, the value a JSON-looking string parses to.
Successors(x) ==
    CASE x.t \in {"map", "list"} -> [i \in 1..Len(x.c) |-> x.c[i][2]]
      [] x.t = "str" ->
            LET trimmed == Strip(x.s)
            IN IF trimmed # <<>> /\ trimmed[1] \in {"{", "["} /\ json_loads(trimmed).ok
               THEN <<json_loads(trimmed).val>>
               ELSE <<>>
      [] OTHER -> <<>>

\* Every reachable value with the path of successor indices leading to it.
RECURSIVE Reachable(_)
Reachable(x) ==
    {<<<<>>, x>>} \cup
        UNION {{<<<<i>> \o pn[1], pn[2]>> : pn \in Reachable(Successors(x)[i])} :
               i \in 1..Len(Successors(x))}

HasContentMapping(x) ==
    x.t = "map" /\ \E i \in 1..Len(x.c) : x.c[i][1] = K_content /\ x.c[i][2].t = "map"

ContentOf(x) == x.c[CHOOSE i \in 1..Len(x.c) : x.c[i][1] = K_content][2]

\* p before q in pre-order: a proper prefix, or smaller at the first difference.
PathBefore(p, q) ==
    \/ Len(p) < Len(q) /\ SubSeq(q, 1, Len(p)) = p
    \/ \E k \in 1..Len(p) :
          k <= Len(q) /\ SubSeq(p, 1, k - 1) = SubSeq(q, 1, k - 1) /\ p[k] < q[k]

\* C7: the walker yields exactly one content node for every reachable mapping
\* that has a key "content" holding a mapping (in pre-order), also for those
\* inside other content nodes; unparsable strings contribute nothing.
C7_OneContentPerMapping ==
    pc = "done" =>
        LET holders == {pn \in Reachable(obj) : HasContentMapping(pn[2])}
        IN /\ Len(contents) = Cardinality(holders)
           /\ \A pn \in holders :
                 contents[Cardinality({qn \in holders : PathBefore(qn[1], pn[1])}) + 1]
                     = ContentOf(pn[2])

\* {"content": {"x": "{\"content\": {\"y\": 1}}"}} yields two content nodes.
C7_Witness ==
    /\ pc = "done"
    /\ obj = Obj1(K_content, Obj1(<<"x">>, JStr(ContentY)))
    /\ contents = <<Obj1(<<"x">>, JStr(ContentY)), Obj1(<<"y">>, JInt(1))>>

====
